---- MODULE Spec2Model ----
(***************************************************************************)
(* The write path of ldapd (modify.c): ldap_delete, ldap_add, ldap_modify. *)
(* Each handler is modelled in two steps, split where namespace_begin      *)
(* returns: the preamble up to and including namespace_begin, and the rest *)
(* of the function up to its return.  Between the two steps the partition's*)
(* transaction is open, which is where another request's namespace_begin   *)
(* meets EBUSY.                                                            *)
(***************************************************************************)
EXTENDS Integers, Sequences, FiniteSets, TLC

\* ------------------------------------------------------------ bounds
MaxReq == 3        \* requests of a run of the concurrent server
MaxSeqSubmit == 1  \* requests of a run of the sequential server
MaxQueue == 2      \* capacity of a partition's retry queue
MaxAttrs == 2      \* attributes listed in an add request
MaxMods == 2       \* modify-items in a modify request

\* ------------------------------------------------------ result codes
LDAP_SUCCESS == "success"
LDAP_PROTOCOL_ERROR == "protocolError"
LDAP_NAMING_VIOLATION == "namingViolation"
LDAP_INSUFFICIENT_ACCESS == "insufficientAccess"
LDAP_BUSY == "busy"
LDAP_NOT_ALLOWED_ON_NONLEAF == "notAllowedOnNonleaf"
LDAP_NO_SUCH_OBJECT == "noSuchObject"
LDAP_OTHER == "other"
LDAP_NO_SUCH_ATTRIBUTE == "noSuchAttributeType"
LDAP_CONSTRAINT_VIOLATION == "constraintViolation"
LDAP_ALREADY_EXISTS == "alreadyExists"
LDAP_INVALID_DN_SYNTAX == "invalidDnSyntax"
LDAP_REFERRAL == "referral"
LDAP_OBJECT_CLASS_VIOLATION == "objectClassViolation"

\* The protocol result surface of the specification, section 6.
ResultSurface ==
  { LDAP_SUCCESS, LDAP_PROTOCOL_ERROR, LDAP_NAMING_VIOLATION,
    LDAP_INSUFFICIENT_ACCESS, LDAP_BUSY, LDAP_NOT_ALLOWED_ON_NONLEAF,
    LDAP_NO_SUCH_OBJECT, LDAP_OTHER, LDAP_NO_SUCH_ATTRIBUTE,
    LDAP_CONSTRAINT_VIOLATION, LDAP_ALREADY_EXISTS, LDAP_INVALID_DN_SYNTAX }

\* What validate_entry may return besides LDAP_SUCCESS: a code of its own.
ValidatorFailures == { LDAP_OBJECT_CLASS_VIOLATION, LDAP_CONSTRAINT_VIOLATION }

\* ------------------------------------------------------------- keys
\* A DN is a sequence of RDNs, leftmost first: <<"b","a","x">> is b,a,x.
Lower(c) == CASE c = "A" -> "a" [] c = "B" -> "b" [] c = "X" -> "x" [] OTHER -> c

\* normalize_dn: case folding of every component.
normalize_dn(dn) == [i \in 1..Len(dn) |-> Lower(dn[i])]

Rank(c) == CASE c = "a" -> 1 [] c = "b" -> 2 [] c = "c" -> 3 [] c = "x" -> 4
             [] c = "y" -> 5 [] OTHER -> 6

\* The store's key order: keys compare from their right-hand end, so that a
\* key's descendants follow it immediately.
RECURSIVE KeyLess(_, _)
KeyLess(k1, k2) ==
  IF k1 = <<>> THEN k2 # <<>>
  ELSE IF k2 = <<>> THEN FALSE
  ELSE LET c1 == k1[Len(k1)]
           c2 == k2[Len(k2)]
       IN  IF c1 # c2 THEN Rank(c1) < Rank(c2)
           ELSE KeyLess(SubSeq(k1, 1, Len(k1) - 1), SubSeq(k2, 1, Len(k2) - 1))

\* has_suffix(key, dn): dn is a right-hand suffix of key.
has_suffix(key, dn) ==
  /\ Len(key) >= Len(dn)
  /\ SubSeq(key, Len(key) - Len(dn) + 1, Len(key)) = dn

\* k is a descendant of dn: dn is a proper right-hand suffix of k.
IsDescendant(k, dn) == has_suffix(k, dn) /\ k # dn

\* ------------------------------------------------------- partitions
Partitions == {"p1", "p2"}
NoPartition == "none"
PartitionSuffix == [p1 |-> "x", p2 |-> "y"]
PartitionRelax == [p1 |-> FALSE, p2 |-> TRUE]

\* namespace_for_base: the partition whose suffix ends the DN, or none.
namespace_for_base(dn) ==
  IF dn # <<>> /\ \E p \in Partitions : PartitionSuffix[p] = dn[Len(dn)]
  THEN CHOOSE p \in Partitions : PartitionSuffix[p] = dn[Len(dn)]
  ELSE NoPartition

\* ----------------------------------------------------------- schema
\* lookup_attribute(conf->schema, name): "cn" and "mail" are known and
\* mutable, "createTimestamp" is known and immutable, anything else unknown.
KnownAttrs == {"cn", "mail", "createTimestamp"}
ImmutableAttrs == {"createTimestamp"}
lookup_attribute(name) ==
  IF name \in KnownAttrs THEN [known |-> TRUE, immutable |-> name \in ImmutableAttrs]
  ELSE [known |-> FALSE, immutable |-> FALSE]

\* ---------------------------------------------------------- entries
\* An entry is a sequence of attributes [name, vals], vals a sequence of
\* values, in insertion order.
Attr(name, vals) == [name |-> name, vals |-> vals]

\* ldap_get_attribute: index of the attribute named name, 0 when absent (NULL).
ldap_get_attribute(entry, name) ==
  IF \E i \in 1..Len(entry) : entry[i].name = name
  THEN CHOOSE i \in 1..Len(entry) :
         /\ entry[i].name = name
         /\ \A j \in 1..(i - 1) : entry[j].name # name
  ELSE 0

\* ldap_add_attribute: append a new attribute with the given values.
ldap_add_attribute(entry, name, vals) == Append(entry, Attr(name, vals))

\* ldap_del_attribute: unlink the attribute named name, if there is one.
ldap_del_attribute(entry, name) ==
  LET i == ldap_get_attribute(entry, name)
  IN  IF i = 0 THEN entry
      ELSE SubSeq(entry, 1, i - 1) \o SubSeq(entry, i + 1, Len(entry))

RECURSIVE RemoveFirst(_, _)
RemoveFirst(s, v) ==
  IF s = <<>> THEN <<>>
  ELSE IF Head(s) = v THEN Tail(s)
  ELSE <<Head(s)>> \o RemoveFirst(Tail(s), v)

RECURSIVE RemoveAll(_, _)
RemoveAll(s, vs) ==
  IF vs = <<>> THEN s ELSE RemoveAll(RemoveFirst(s, Head(vs)), Tail(vs))

\* ldap_merge_values: link the given values after the attribute's own.
ldap_merge_values(entry, i, vals) ==
  [entry EXCEPT ![i].vals = entry[i].vals \o vals]

\* ldap_set_values: the attribute's values become exactly the given ones.
ldap_set_values(entry, i, vals) == [entry EXCEPT ![i].vals = vals]

\* ldap_del_values: remove the given values from the attribute; an attribute
\* left without values is removed from the entry.
ldap_del_values(entry, i, vals) ==
  LET left == RemoveAll(entry[i].vals, vals)
  IN  IF left = <<>>
      THEN SubSeq(entry, 1, i - 1) \o SubSeq(entry, i + 1, Len(entry))
      ELSE [entry EXCEPT ![i].vals = left]

\* ----------------------------------------------------- modify-items
LDAP_MOD_ADD == "add"
LDAP_MOD_DELETE == "delete"
LDAP_MOD_REPLACE == "replace"
BER_TYPE_OCTETSTRING == "octetstring"
BER_TYPE_SET == "set"

\* A modify-item as decoded by ber_scanf_elements(mod, "{E{se"): decodes is
\* whether the scan succeeds, vtype the BER type of the first value.
Mod(decodes, op, attr, vals, vtype) ==
  [decodes |-> decodes, op |-> op, attr |-> attr, vals |-> vals, vtype |-> vtype]

\* The loop's state after a modify-item: rc, the entry, and nullarg: whether
\* a value-set helper was entered with a NULL attribute.
Step(rc, entry) == [rc |-> rc, entry |-> entry, nullarg |-> FALSE]
CONTINUE == "continue"
CRASH == "crash"

\* A slip in the REPLACE case: an attribute that is present is unlinked and
\* the new values are not put in its place.
ModReplace_Drops(entry, m, a) ==
  IF m.vals # <<>>
  THEN IF a = 0 THEN ldap_add_attribute(entry, m.attr, m.vals)
       ELSE ldap_del_attribute(entry, m.attr)
  ELSE IF a = 0 THEN ldap_del_attribute(entry, m.attr)
  ELSE entry

\* Lines 286-294, case LDAP_MOD_REPLACE: a is ldap_get_attribute's result.
ModReplace(entry, m, a) ==
  IF m.vals # <<>>
  THEN IF a = 0 THEN ldap_add_attribute(entry, m.attr, m.vals)
       ELSE ldap_set_values(entry, a, m.vals)
  ELSE IF a = 0 THEN ldap_del_attribute(entry, m.attr)
  ELSE entry

\* The switch on the operation kind, once the attribute type was accepted.
\* a = 0 is the NULL that ldap_get_attribute returns for an absent attribute;
\* what a value-set helper does when entered with it is not defined: ub is
\* CRASH (the process dies in the helper) or CONTINUE (the helper returns and
\* the entry is as it was).
ModSwitch(entry, m, ub) ==
  LET a == ldap_get_attribute(entry, m.attr)
  IN  CASE m.op = LDAP_MOD_ADD ->
             IF a = 0 THEN Step(CONTINUE, ldap_add_attribute(entry, m.attr, m.vals))
             ELSE Step(CONTINUE, ldap_merge_values(entry, a, m.vals))
        [] m.op = LDAP_MOD_DELETE ->
             IF m.vals # <<>> /\ m.vtype = BER_TYPE_SET
             THEN IF a = 0 THEN [Step(ub, entry) EXCEPT !.nullarg = TRUE]
                  ELSE Step(CONTINUE, ldap_del_values(entry, a, m.vals))
             ELSE Step(CONTINUE, ldap_del_attribute(entry, m.attr))
        [] m.op = LDAP_MOD_REPLACE -> Step(CONTINUE, ModReplace(entry, m, a))
        [] OTHER -> Step(CONTINUE, entry)

\* A slip in the checks: the immutable flag is not looked at.
ModCheck_NoImmutable(m, relax) ==
  LET at == lookup_attribute(m.attr)
  IN  IF ~m.decodes THEN LDAP_PROTOCOL_ERROR
      ELSE IF ~at.known /\ ~relax THEN LDAP_NO_SUCH_ATTRIBUTE
      ELSE CONTINUE

\* The checks made on a modify-item before it is applied.
ModCheck(m, relax) ==
  LET at == lookup_attribute(m.attr)
  IN  IF ~m.decodes THEN LDAP_PROTOCOL_ERROR
      ELSE IF ~at.known /\ ~relax THEN LDAP_NO_SUCH_ATTRIBUTE
      ELSE IF at.known /\ at.immutable THEN LDAP_CONSTRAINT_VIOLATION
      ELSE CONTINUE

\* One turn of the loop over the modify-items.
ApplyMod(entry, m, relax, ub) ==
  IF ModCheck(m, relax) # CONTINUE THEN Step(ModCheck(m, relax), entry)
  ELSE ModSwitch(entry, m, ub)

\* The loop over the modify-items: it stops at the first item that fails.
RECURSIVE ApplyMods(_, _, _, _)
ApplyMods(entry, mods, relax, ub) ==
  IF mods = <<>> THEN Step(CONTINUE, entry)
  ELSE LET s == ApplyMod(entry, Head(mods), relax, ub)
       IN  IF s.rc # CONTINUE THEN s
           ELSE [ApplyMods(s.entry, Tail(mods), relax, ub)
                   EXCEPT !.nullarg = @ \/ s.nullarg]

\* ------------------------------------------------ system attributes
BindDN == ""
ldap_now == "now"
uuid_str == "uuid"

\* Lines 161-182: creatorsName, createTimestamp and entryUUID are appended.
AddOperational(attrs) ==
  ldap_add_attribute(
    ldap_add_attribute(
      ldap_add_attribute(attrs, "creatorsName", <<BindDN>>),
      "createTimestamp", <<ldap_now>>),
    "entryUUID", <<uuid_str>>)

\* Lines 301-313: set the attribute's values, creating it when absent.
Stamp(entry, name, vals) ==
  IF ldap_get_attribute(entry, name) # 0
  THEN ldap_set_values(entry, ldap_get_attribute(entry, name), vals)
  ELSE ldap_add_attribute(entry, name, vals)

StampModified(entry) ==
  Stamp(Stamp(entry, "modifiersName", <<BindDN>>), "modifyTimestamp", <<ldap_now>>)

\* ------------------------------------------------ the store's cursor
NoKey == <<"-">>

\* btree_cursor_get(BT_NEXT) after an exact match on dn: the key that follows
\* dn in the store's order, NoKey when there is none (ENOENT).
NextKey(w, dn) ==
  LET later == {k \in DOMAIN w : KeyLess(dn, k)}
  IN  IF later = {} THEN NoKey
      ELSE CHOOSE k \in later : \A j \in later : j = k \/ KeyLess(k, j)

\* --------------------------------------- outcome of a handler's body
\* code: the result code handed to ldap_respond (CRASH: the handler never
\* returns); view: the transaction's view of the store when it is terminated;
\* ends: the calls of namespace_commit and namespace_abort, in order;
\* nwrite: the calls of namespace_del, namespace_add and namespace_update;
\* fault: the store call that failed of its own, if one did; valid: what
\* validate_entry returned, NotCalled if the handler did not reach it;
\* nullarg: whether a value-set helper was entered with a NULL attribute;
\* cursor: the handler's cursor on the transaction when it returns, "none"
\* when it opened none.
Outcome(code, view, ends, nwrite, fault, valid) ==
  [code |-> code, view |-> view, ends |-> ends, nwrite |-> nwrite,
   fault |-> fault, valid |-> valid, nullarg |-> FALSE, cursor |-> "none"]

NotCalled == "none"

NoFault == "none"
ENOENT == "ENOENT"
EEXIST == "EEXIST"
EIO == "EIO"

\* namespace_abort never fails (specification, section 4.1): errno is after
\* it what the failed call left.
ErrnoAfterAbort(errno) == errno

\* ------------------------------------------------------- ldap_delete
\* A slip at fail: the cause of the failure is not looked at.
DeleteFailCode_Other(errno) == LDAP_OTHER

\* Lines 92-96: the code sent after the abort at fail.
DeleteFailCode(errno) ==
  IF errno = ENOENT THEN LDAP_NO_SUCH_OBJECT ELSE LDAP_OTHER

\* A slip in the leaf check: only a child of dn, not a deeper descendant,
\* counts.
DeleteNonLeaf_ChildOnly(w, dn) ==
  /\ NextKey(w, dn) # NoKey
  /\ has_suffix(NextKey(w, dn), dn)
  /\ Len(NextKey(w, dn)) = Len(dn) + 1

\* Lines 79-85: the key that follows dn exists and has dn as suffix.
DeleteNonLeaf(w, dn) ==
  NextKey(w, dn) # NoKey /\ has_suffix(NextKey(w, dn), dn)

\* Lines 87-90: the code sent once namespace_del returned 0; committed is
\* whether namespace_commit returned 0.
DeleteCommitCode(committed) == LDAP_SUCCESS

\* Lines 71-96: the cursor when ldap_delete returns.  opened is whether
\* btree_txn_cursor_open returned one; no path from there to a return calls
\* btree_cursor_close.
DeleteCursor(opened) == IF opened THEN "open" ELSE "none"

DeleteFaults == {NoFault, "cursor_open", "cursor_get", "cursor_next", "del", "commit"}

\* Lines 67-96: ldap_delete from the return of namespace_begin on.  w is the
\* transaction's view, fault the store call that fails of its own.
DeleteBody(w, dn, fault) ==
  LET fail(errno, f, n) ==
        Outcome(DeleteFailCode(ErrnoAfterAbort(errno)), w, <<"abort">>, n, f,
                NotCalled)
      opened(out) == [out EXCEPT !.cursor = DeleteCursor(TRUE)]
  IN  IF fault = "cursor_open"
      THEN [fail(EIO, fault, 0) EXCEPT !.cursor = DeleteCursor(FALSE)]
      ELSE IF fault = "cursor_get" THEN opened(fail(EIO, fault, 0))
      ELSE IF dn \notin DOMAIN w THEN opened(fail(ENOENT, NoFault, 0))
      ELSE IF fault = "cursor_next" THEN opened(fail(EIO, fault, 0))
      ELSE IF DeleteNonLeaf(w, dn)
      THEN opened(Outcome(LDAP_NOT_ALLOWED_ON_NONLEAF, w, <<"abort">>, 0,
                          NoFault, NotCalled))
      ELSE IF fault = "del" THEN opened(fail(EIO, fault, 1))
      ELSE opened(Outcome(DeleteCommitCode(fault # "commit"),
                          [k \in DOMAIN w \ {dn} |-> w[k]], <<"commit">>, 1,
                          fault, NotCalled))

\* ---------------------------------------------------------- ldap_add
\* An attribute of the add request: wellformed is whether its type decodes
\* as a string (ber_get_string).
AddAttr(wellformed, name, vals) ==
  [wellformed |-> wellformed, name |-> name, vals |-> vals]

\* A slip in the loop: the immutable flag is not looked at.
RECURSIVE AddCheckAttrs_NoImmutable(_)
AddCheckAttrs_NoImmutable(attrs) ==
  IF attrs = <<>> THEN CONTINUE
  ELSE LET e == Head(attrs)
       IN  IF ~e.wellformed THEN LDAP_PROTOCOL_ERROR
           ELSE IF ~lookup_attribute(e.name).known THEN LDAP_NO_SUCH_ATTRIBUTE
           ELSE AddCheckAttrs_NoImmutable(Tail(attrs))

\* Lines 135-148: the loop over the attributes before the transaction.
RECURSIVE AddCheckAttrs(_)
AddCheckAttrs(attrs) ==
  IF attrs = <<>> THEN CONTINUE
  ELSE LET e == Head(attrs)
       IN  IF ~e.wellformed THEN LDAP_PROTOCOL_ERROR
           ELSE IF ~lookup_attribute(e.name).known THEN LDAP_NO_SUCH_ATTRIBUTE
           ELSE IF lookup_attribute(e.name).immutable THEN LDAP_CONSTRAINT_VIOLATION
           ELSE AddCheckAttrs(Tail(attrs))

\* The entry an add request describes.
AddEntry(attrs) == [i \in 1..Len(attrs) |-> Attr(attrs[i].name, attrs[i].vals)]

\* A slip after the abort: the cause of namespace_add's failure is not
\* looked at.
AddAbortCode_NoExists(rc, errno) == IF rc = LDAP_SUCCESS THEN LDAP_OTHER ELSE rc

\* Lines 186-190: the code sent after the abort; rc is validate_entry's.
AddAbortCode(rc, errno) ==
  IF rc = LDAP_SUCCESS /\ errno = EEXIST THEN LDAP_ALREADY_EXISTS
  ELSE IF rc = LDAP_SUCCESS THEN LDAP_OTHER
  ELSE rc

\* A slip after namespace_commit: a code of another family is sent.
AddCommitCode_Unavailable(rc, committed) == IF committed THEN rc ELSE "unavailable"

\* Lines 191-192: the code sent after namespace_commit.
AddCommitCode(rc, committed) == IF committed THEN rc ELSE LDAP_OTHER

AddFaults == {NoFault, "nomem", "add", "commit"}

\* Lines 159-200: ldap_add from the return of namespace_begin on.  valid is
\* what validate_entry returns.
AddBody(w, dn, attrs, valid, fault) ==
  LET entry == AddOperational(AddEntry(attrs))
      abort(errno, f, n) ==
        Outcome(AddAbortCode(valid, ErrnoAfterAbort(errno)), w, <<"abort">>, n,
                f, valid)
  IN  IF fault = "nomem"
      THEN Outcome(LDAP_OTHER, w, <<"abort">>, 0, fault, NotCalled)
      ELSE IF valid # LDAP_SUCCESS THEN abort(EIO, NoFault, 0)
      ELSE IF dn \in DOMAIN w THEN abort(EEXIST, NoFault, 1)
      ELSE IF fault = "add" THEN abort(EIO, fault, 1)
      ELSE Outcome(AddCommitCode(valid, fault # "commit"),
                   (dn :> entry) @@ w, <<"commit">>, 1, fault, valid)

\* ------------------------------------------------------- ldap_modify
\* A slip at done: the transaction is committed whatever rc is.
ModifyDone_AlwaysCommit(rc) == <<"commit">>

\* A slip at done: the failure paths leave without namespace_abort.
ModifyDone_NoAbort(rc) == IF rc = LDAP_SUCCESS THEN <<"commit">> ELSE <<>>

\* A slip at done: the transaction is neither committed nor aborted.
ModifyDone_Leak(rc) == <<>>

\* Lines 320-324: commit when rc is LDAP_SUCCESS, abort otherwise.
ModifyDone(rc) == IF rc = LDAP_SUCCESS THEN <<"commit">> ELSE <<"abort">>

\* Lines 315-318: rc after namespace_update.
ModifyUpdateCode(updated) == IF updated THEN LDAP_SUCCESS ELSE LDAP_OTHER

ModifyFaults == {NoFault, "get", "update", "commit"}

\* Lines 246-328: ldap_modify from the return of namespace_begin on.
ModifyBody(w, dn, mods, relax, valid, fault, ub) ==
  LET done(rc, view, n, f, v) == Outcome(rc, view, ModifyDone(rc), n, f, v)
      s == ApplyMods(w[dn], mods, relax, ub)
      loop(out) == [out EXCEPT !.nullarg = s.nullarg]
  IN  IF fault = "get" THEN done(LDAP_NO_SUCH_OBJECT, w, 0, fault, NotCalled)
      ELSE IF dn \notin DOMAIN w
      THEN done(LDAP_NO_SUCH_OBJECT, w, 0, NoFault, NotCalled)
      ELSE IF s.rc = CRASH
      THEN loop(Outcome(CRASH, w, <<>>, 0, NoFault, NotCalled))
      ELSE IF s.rc # CONTINUE THEN loop(done(s.rc, w, 0, NoFault, NotCalled))
      ELSE IF valid # LDAP_SUCCESS THEN loop(done(valid, w, 0, NoFault, valid))
      ELSE IF fault = "update"
      THEN loop(done(ModifyUpdateCode(FALSE), w, 1, fault, valid))
      ELSE loop(done(ModifyUpdateCode(TRUE),
                     [w EXCEPT ![dn] = StampModified(s.entry)], 1, fault,
                     valid))

\* --------------------------------------------------------- preambles
Request(op, decodes, dn, authorized, attrs, mods) ==
  [op |-> op, decodes |-> decodes, dn |-> dn, authorized |-> authorized,
   attrs |-> attrs, mods |-> mods]

NoReq == Request("none", FALSE, <<>>, FALSE, <<>>, <<>>)

\* Lines 47-53, 122-128, 226-232: the DN lies in no partition; refs is
\* whether namespace_referrals finds referrals for it.
NoNamespaceCode(refs) == IF refs THEN LDAP_REFERRAL ELSE LDAP_NAMING_VIOLATION

\* Lines 41-56: ldap_delete up to namespace_begin.
DeletePreamble(req, refs) ==
  IF ~req.decodes THEN LDAP_PROTOCOL_ERROR
  ELSE IF namespace_for_base(normalize_dn(req.dn)) = NoPartition
  THEN NoNamespaceCode(refs)
  ELSE IF ~req.authorized THEN LDAP_INSUFFICIENT_ACCESS
  ELSE CONTINUE

\* Lines 113-148: ldap_add up to namespace_begin.
AddPreamble(req, refs) ==
  IF ~req.decodes THEN LDAP_PROTOCOL_ERROR
  ELSE IF normalize_dn(req.dn) = <<>> THEN LDAP_INVALID_DN_SYNTAX
  ELSE IF namespace_for_base(normalize_dn(req.dn)) = NoPartition
  THEN NoNamespaceCode(refs)
  ELSE IF ~req.authorized THEN LDAP_INSUFFICIENT_ACCESS
  ELSE AddCheckAttrs(req.attrs)

\* Lines 217-235: ldap_modify up to namespace_begin.
ModifyPreamble(req, refs) ==
  IF ~req.decodes THEN LDAP_PROTOCOL_ERROR
  ELSE IF normalize_dn(req.dn) = <<>> THEN LDAP_INVALID_DN_SYNTAX
  ELSE IF namespace_for_base(normalize_dn(req.dn)) = NoPartition
  THEN NoNamespaceCode(refs)
  ELSE IF ~req.authorized THEN LDAP_INSUFFICIENT_ACCESS
  ELSE CONTINUE

\* A slip after EBUSY: the queue's rejection is not answered.
BeginReply_Silent(begun, queued) ==
  IF begun = "error" THEN <<LDAP_OTHER>> ELSE <<>>

\* A slip after EBUSY: a queued request is answered busy at once.
BeginReply_Twice(begun, queued) ==
  IF begun = "ok" THEN <<>>
  ELSE IF begun = "busy" THEN <<LDAP_BUSY>>
  ELSE <<LDAP_OTHER>>

\* Lines 58-65, 150-157, 237-244: what is sent after namespace_begin
\* returned begun ("ok", "busy" or "error") and, on busy,
\* namespace_queue_request returned queued ("accepted" or "rejected").
BeginReply(begun, queued) ==
  IF begun = "ok" THEN <<>>
  ELSE IF begun = "busy" /\ queued = "accepted" THEN <<>>
  ELSE IF begun = "busy" THEN <<LDAP_BUSY>>
  ELSE <<LDAP_OTHER>>

\* A slip after EBUSY: a request the queue rejects falls through into the body.
BeginState_FallsThrough(begun, queued) ==
  IF begun = "error" THEN "done"
  ELSE IF begun = "busy" /\ queued = "accepted" THEN "queued"
  ELSE "txn"

\* Lines 58-65, 150-157, 237-244: where the handler stands after them: in
\* its transaction ("txn"), returned with the request queued ("queued"), or
\* returned with the request answered ("done").
BeginState(begun, queued) ==
  IF begun = "ok" THEN "txn"
  ELSE IF begun = "busy" /\ queued = "accepted" THEN "queued"
  ELSE "done"

\* ------------------------------------------------------------- state
VARIABLES
  store,   \* store[p]: the committed entries of partition p, by key
  open,    \* open[p]: the requests holding an open transaction on p
  queue,   \* queue[p]: the requests queued for retry on p, oldest first
  reqs,    \* reqs[r]: the decoded request in slot r
  pc,      \* pc[r]: "free", "new" (awaiting dispatch), "txn" (inside its
           \* handler, transaction open), "queued", "done" (handler returned
           \* and the request was answered), "gone" (cancelled), "crashed"
  sent,    \* sent[r]: the result codes sent for the request, in order
  obs,     \* obs[r]: what the latest run of the request's handler did
  nsub     \* requests submitted so far

vars == <<store, open, queue, reqs, pc, sent, obs, nsub>>

Reqs == 1..MaxReq

NoObs == [begun |-> "none", queued |-> "none", ends |-> <<>>, nwrite |-> 0,
          fault |-> NoFault, valid |-> NotCalled, runs |-> 0, ticket |-> 0,
          nullarg |-> FALSE, cursor |-> "none"]

\* The entry ldap_add stores for an add that lists cn = v1.
Entry0 == AddOperational(<<Attr("cn", <<"v1">>)>>)

\* A state the server reaches by four adds: x, b,a,x (whose parent a,x was
\* never added) and c,x in p1, y in p2.
Init ==
  /\ store = [p \in Partitions |->
                IF p = "p1"
                THEN (<<"x">> :> Entry0) @@ (<<"b", "a", "x">> :> Entry0)
                     @@ (<<"c", "x">> :> Entry0)
                ELSE (<<"y">> :> Entry0)]
  /\ open = [p \in Partitions |-> {}]
  /\ queue = [p \in Partitions |-> <<>>]
  /\ reqs = [r \in Reqs |-> NoReq]
  /\ pc = [r \in Reqs |-> "free"]
  /\ sent = [r \in Reqs |-> <<>>]
  /\ obs = [r \in Reqs |-> NoObs]
  /\ nsub = 0

Alive == \A r \in Reqs : pc[r] # "crashed"

\* ------------------------------------------- the transaction engine
\* namespace_begin: busy while a transaction is open on the partition,
\* otherwise it succeeds unless the store fails.
namespace_begin(p) == IF open[p] # {} THEN {"busy"} ELSE {"ok", "error"}

\* namespace_queue_request: accepted only while the partition is busy and
\* the queue has room; it may be rejected in any case.
namespace_queue_request(p) ==
  IF open[p] # {} /\ Len(queue[p]) < MaxQueue THEN {"accepted", "rejected"}
  ELSE {"rejected"}

\* The queue after n transaction terminations: each takes the oldest request.
Drained(q, n) == SubSeq(q, (IF n < Len(q) THEN n ELSE Len(q)) + 1, Len(q))

\* A slip in the queue: the newest requests are handed back, not the oldest.
Redriven_Newest(q, n) ==
  {q[i] : i \in (Len(q) - (IF n < Len(q) THEN n ELSE Len(q)) + 1)..Len(q)}

\* The requests those n terminations hand back to the dispatcher.
Redriven(q, n) == {q[i] : i \in 1..(IF n < Len(q) THEN n ELSE Len(q))}

\* The number of requests queued so far on any partition, for tickets.
Tickets == {obs[r].ticket : r \in Reqs}
NextTicket == (CHOOSE t \in Tickets : \A u \in Tickets : u <= t) + 1

\* ----------------------------------------------------------- actions
\* The end of a handler's first step: pre is its preamble's code, p the
\* partition of the DN.  A preamble that fails answers at once; otherwise
\* namespace_begin decides between the transaction, the queue and a reply.
Dispatch(r, pre, p) ==
  \E b \in (IF pre = CONTINUE THEN namespace_begin(p) ELSE {"none"}),
     q \in (IF pre = CONTINUE THEN namespace_queue_request(p) ELSE {"none"}) :
    LET reply == IF pre # CONTINUE THEN <<pre>> ELSE BeginReply(b, q)
        state == IF pre # CONTINUE THEN "done" ELSE BeginState(b, q)
    IN  /\ sent' = [sent EXCEPT ![r] = @ \o reply]
        /\ pc' = [pc EXCEPT ![r] = state]
        /\ open' = IF b = "ok" THEN [open EXCEPT ![p] = @ \cup {r}] ELSE open
        /\ queue' = IF state = "queued" THEN [queue EXCEPT ![p] = Append(@, r)]
                    ELSE queue
        /\ obs' = [obs EXCEPT ![r] =
                     [NoObs EXCEPT !.begun = b,
                                   !.queued = IF b = "busy" THEN q ELSE "none",
                                   !.runs = obs[r].runs + 1,
                                   !.ticket = IF state = "queued" THEN NextTicket
                                              ELSE 0]]
        /\ UNCHANGED <<store, reqs, nsub>>

\* The end of a handler's second step: out is the outcome of its body.  Each
\* namespace_commit or namespace_abort releases the partition and hands the
\* oldest queued request back to the dispatcher; a commit that succeeds
\* makes the transaction's view the partition's store.
Finish(r, p, out) ==
  LET n == Len(out.ends)
      committed == n > 0 /\ out.ends[1] = "commit" /\ out.fault # "commit"
  IN  /\ store' = [store EXCEPT ![p] = IF committed THEN out.view ELSE @]
      /\ open' = [open EXCEPT ![p] = IF n > 0 THEN @ \ {r} ELSE @]
      /\ queue' = [queue EXCEPT ![p] = Drained(@, n)]
      /\ pc' = [x \in Reqs |->
                  IF x = r THEN (IF out.code = CRASH THEN "crashed" ELSE "done")
                  ELSE IF x \in Redriven(queue[p], n) THEN "new"
                  ELSE pc[x]]
      /\ sent' = [sent EXCEPT ![r] = IF out.code = CRASH THEN @
                                     ELSE Append(@, out.code)]
      /\ obs' = [obs EXCEPT ![r].ends = out.ends, ![r].nwrite = out.nwrite,
                            ![r].fault = out.fault, ![r].valid = out.valid,
                            ![r].nullarg = out.nullarg,
                            ![r].cursor = out.cursor]
      /\ UNCHANGED <<reqs, nsub>>

TargetPartition(r) == namespace_for_base(normalize_dn(reqs[r].dn))

\* What the store and the validator answer during one run of a body: one
\* store call fails of its own, or validate_entry rejects the entry, or
\* nothing goes wrong.  (A call after the first failure is never made.)
Scenarios(faults, rejections) ==
  {[fault |-> f, valid |-> LDAP_SUCCESS] : f \in faults}
  \cup {[fault |-> NoFault, valid |-> v] : v \in rejections}

DeleteStart(r) ==
  /\ Alive /\ pc[r] = "new" /\ reqs[r].op = "delete"
  /\ \E refs \in BOOLEAN :
       Dispatch(r, DeletePreamble(reqs[r], refs), TargetPartition(r))

DeleteFinish(r, faults) ==
  /\ Alive /\ pc[r] = "txn" /\ reqs[r].op = "delete"
  /\ \E fault \in faults :
       Finish(r, TargetPartition(r),
              DeleteBody(store[TargetPartition(r)], normalize_dn(reqs[r].dn),
                         fault))

AddStart(r) ==
  /\ Alive /\ pc[r] = "new" /\ reqs[r].op = "add"
  /\ \E refs \in BOOLEAN :
       Dispatch(r, AddPreamble(reqs[r], refs), TargetPartition(r))

AddFinish(r, scenarios) ==
  /\ Alive /\ pc[r] = "txn" /\ reqs[r].op = "add"
  /\ \E x \in scenarios :
       Finish(r, TargetPartition(r),
              AddBody(store[TargetPartition(r)], normalize_dn(reqs[r].dn),
                      reqs[r].attrs, x.valid, x.fault))

ModifyStart(r) ==
  /\ Alive /\ pc[r] = "new" /\ reqs[r].op = "modify"
  /\ \E refs \in BOOLEAN :
       Dispatch(r, ModifyPreamble(reqs[r], refs), TargetPartition(r))

ModifyFinish(r, scenarios) ==
  /\ Alive /\ pc[r] = "txn" /\ reqs[r].op = "modify"
  /\ \E x \in scenarios, ub \in {CRASH, CONTINUE} :
       /\ ub = CRASH => x.fault = NoFault /\ x.valid = LDAP_SUCCESS
       /\ Finish(r, TargetPartition(r),
                 ModifyBody(store[TargetPartition(r)], normalize_dn(reqs[r].dn),
                            reqs[r].mods, PartitionRelax[TargetPartition(r)],
                            x.valid, x.fault, ub))

\* A queued request whose connection goes away is taken off the queue and
\* is never run nor answered.
ConnClose(r) ==
  /\ Alive /\ pc[r] = "queued"
  /\ queue' = [queue EXCEPT ![TargetPartition(r)] =
                 SelectSeq(@, LAMBDA x : x # r)]
  /\ pc' = [pc EXCEPT ![r] = "gone"]
  /\ UNCHANGED <<store, open, reqs, sent, obs, nsub>>

\* A decoded request, one of requests, arrives in the free slot r.
Submit(r, requests) ==
  /\ Alive /\ pc[r] = "free"
  /\ \E req \in requests : reqs' = [reqs EXCEPT ![r] = req]
  /\ pc' = [pc EXCEPT ![r] = "new"]
  /\ nsub' = nsub + 1
  /\ UNCHANGED <<store, open, queue, sent, obs>>

\* The slot of an answered request is free again: the request was released
\* when it was answered.
Release(r) ==
  /\ Alive /\ pc[r] = "done"
  /\ reqs' = [reqs EXCEPT ![r] = NoReq]
  /\ pc' = [pc EXCEPT ![r] = "free"]
  /\ sent' = [sent EXCEPT ![r] = <<>>]
  /\ obs' = [obs EXCEPT ![r] = NoObs]
  /\ UNCHANGED <<store, open, queue, nsub>>

\* ------------------------------------------------------------ inputs
SeqsUpTo(S, n) == UNION {[1..k -> S] : k \in 0..n}

RichDNs == { <<>>, <<"x">>, <<"X">>, <<"a", "x">>, <<"b", "a", "x">>, <<"y">>,
             <<"z">> }

AddAttrMenu ==
  { AddAttr(TRUE, "cn", <<"v1">>), AddAttr(TRUE, "createTimestamp", <<"v1">>),
    AddAttr(TRUE, "zz", <<"v1">>), AddAttr(FALSE, "", <<>>) }

ModMenu ==
  { Mod(TRUE, LDAP_MOD_ADD, "cn", <<"v2">>, BER_TYPE_OCTETSTRING),
    Mod(TRUE, LDAP_MOD_DELETE, "cn", <<>>, BER_TYPE_OCTETSTRING),
    Mod(TRUE, LDAP_MOD_DELETE, "cn", <<"v1">>, BER_TYPE_OCTETSTRING),
    Mod(TRUE, LDAP_MOD_DELETE, "cn", <<"v1">>, BER_TYPE_SET),
    Mod(TRUE, LDAP_MOD_REPLACE, "cn", <<>>, BER_TYPE_OCTETSTRING),
    Mod(TRUE, LDAP_MOD_REPLACE, "cn", <<"v1", "v2">>, BER_TYPE_OCTETSTRING),
    Mod(TRUE, LDAP_MOD_REPLACE, "createTimestamp", <<"v1">>, BER_TYPE_OCTETSTRING),
    Mod(TRUE, LDAP_MOD_REPLACE, "zz", <<"v1">>, BER_TYPE_OCTETSTRING),
    Mod(FALSE, LDAP_MOD_ADD, "", <<>>, BER_TYPE_OCTETSTRING) }

ModDNs == { <<"x">>, <<"y">> }

\* The requests of the sequential server.
RichRequests ==
  { Request(op, FALSE, <<>>, TRUE, <<>>, <<>>) : op \in {"delete", "add", "modify"} }
  \cup { Request(op, TRUE, dn, au, <<>>, <<>>) :
           op \in {"delete", "modify"}, dn \in RichDNs, au \in BOOLEAN }
  \cup { Request("add", TRUE, dn, au, attrs, <<>>) :
           dn \in RichDNs, au \in BOOLEAN, attrs \in SeqsUpTo(AddAttrMenu, MaxAttrs) }
  \cup { Request("modify", TRUE, dn, TRUE, <<>>, mods) :
           dn \in ModDNs, mods \in SeqsUpTo(ModMenu, MaxMods) }

\* The requests of the concurrent server.
SmallRequests ==
  { Request("delete", TRUE, <<"b", "a", "x">>, TRUE, <<>>, <<>>),
    Request("add", TRUE, <<"a", "x">>, TRUE, <<AddAttr(TRUE, "cn", <<"v1">>)>>, <<>>),
    Request("modify", TRUE, <<"y">>, TRUE, <<>>,
            <<Mod(TRUE, LDAP_MOD_REPLACE, "cn", <<"v2">>, BER_TYPE_OCTETSTRING)>>) }

\* The modify-items that name cn, and the requests that apply them to x.
CnMods == {m \in ModMenu : m.decodes /\ m.attr = "cn"}

ModRequests ==
  { Request("modify", TRUE, <<"x">>, TRUE, <<>>, mods) :
      mods \in SeqsUpTo(CnMods, MaxMods) }

\* The entries x may hold when a modify reaches it: as ldap_add stored them
\* for adds that list no cn, or cn with one or two values.
EntryMenu ==
  { AddOperational(<<>>), Entry0,
    AddOperational(<<Attr("cn", <<"v3">>)>>),
    AddOperational(<<Attr("cn", <<"v1", "v3">>)>>) }

\* ---------------------------------------------------- specifications
\* The sequential server: one request at a time, every kind of request and
\* every answer of the store and of the validator.
Next ==
  \/ nsub < MaxSeqSubmit /\ Submit(1, RichRequests)
  \/ DeleteStart(1)
  \/ DeleteFinish(1, DeleteFaults)
  \/ AddStart(1)
  \/ AddFinish(1, Scenarios(AddFaults, ValidatorFailures))
  \/ ModifyStart(1)
  \/ ModifyFinish(1, Scenarios(ModifyFaults, ValidatorFailures))
  \/ Release(1)

Spec == Init /\ [][Next]_vars

\* The concurrent server: up to MaxReq requests in flight together; the
\* store fails only under a delete, so that a body ends either way.
NextConc ==
  \/ nsub < MaxReq /\ Submit(nsub + 1, SmallRequests)
  \/ \E r \in Reqs :
       \/ DeleteStart(r)
       \/ DeleteFinish(r, {NoFault, "del"})
       \/ AddStart(r)
       \/ AddFinish(r, Scenarios({NoFault}, {}))
       \/ ModifyStart(r)
       \/ ModifyFinish(r, Scenarios({NoFault}, {}))
       \/ ConnClose(r)

SpecConc == Init /\ [][NextConc]_vars

\* The concurrent server when it is fair, under deletes and modifies: a
\* request handed to the dispatcher is dispatched, and a handler inside its
\* transaction runs to its return.
FairRequests == {req \in SmallRequests : req.op \in {"delete", "modify"}}

NextFair ==
  \/ nsub < MaxReq /\ Submit(nsub + 1, FairRequests)
  \/ \E r \in Reqs :
       \/ DeleteStart(r)
       \/ DeleteFinish(r, {NoFault, "del"})
       \/ ModifyStart(r)
       \/ ModifyFinish(r, Scenarios({NoFault}, {}))
       \/ ConnClose(r)

\* In NextFair the steps that move pc[r] away from "new" or "txn" are the
\* steps of r's own handler (DeleteStart, DeleteFinish, ModifyStart,
\* ModifyFinish), and one of them can be taken whenever the server is alive
\* and pc[r] is "new" or "txn"; so the handler's step is told by what it
\* does to pc, and fairness is stated on pc.
PcStates == {"free", "new", "txn", "queued", "done", "gone", "crashed"}

HandlerStep(r) ==
  /\ Alive /\ pc[r] \in {"new", "txn"}
  /\ pc' \in [Reqs -> PcStates] /\ pc'[r] # pc[r]

SpecFair ==
  Init /\ [][NextFair]_vars /\ \A r \in Reqs : WF_pc(HandlerStep(r))

\* The modify-items at work: one modify of x, whatever entry x holds.
InitMods ==
  /\ store \in {[p \in Partitions |->
                   IF p = "p1" THEN (<<"x">> :> e) ELSE (<<"y">> :> Entry0)] :
                e \in EntryMenu}
  /\ open = [p \in Partitions |-> {}]
  /\ queue = [p \in Partitions |-> <<>>]
  /\ reqs = [r \in Reqs |-> NoReq]
  /\ pc = [r \in Reqs |-> "free"]
  /\ sent = [r \in Reqs |-> <<>>]
  /\ obs = [r \in Reqs |-> NoObs]
  /\ nsub = 0

NextMods ==
  \/ nsub < MaxSeqSubmit /\ Submit(1, ModRequests)
  \/ ModifyStart(1)
  \/ ModifyFinish(1, Scenarios({NoFault}, {}))
  \/ Release(1)

SpecMods == InitMods /\ [][NextMods]_vars

\* ------------------------------------------------------------ claims
Returned(r) == pc[r] = "done"

\* The path on which every check and every store call before the commit
\* succeeded.
SuccessPath(r) ==
  /\ obs[r].fault \in {NoFault, "commit"}
  /\ obs[r].valid = (IF reqs[r].op = "delete" THEN NotCalled ELSE LDAP_SUCCESS)
  /\ obs[r].nwrite = 1
  /\ sent[r] \in {<<LDAP_SUCCESS>>, <<LDAP_OTHER>>}

\* C1: in ldap_delete, ldap_add and ldap_modify, whatever the store, the
\* validator and the schema answer, a handler that returns after a successful
\* namespace_begin has called exactly one of namespace_commit and
\* namespace_abort, exactly once; a handler whose namespace_begin failed has
\* called neither; namespace_commit is called on the success path only, and
\* success is answered only after it.
C1_TerminatedOnce ==
  \A r \in Reqs :
    /\ Returned(r) =>
         /\ obs[r].begun = "ok" => obs[r].ends \in {<<"commit">>, <<"abort">>}
         /\ obs[r].begun # "ok" => obs[r].ends = <<>>
         /\ \A p \in Partitions : r \notin open[p]
         /\ obs[r].ends = <<"commit">> => SuccessPath(r)
         /\ sent[r] = <<LDAP_SUCCESS>> => obs[r].ends = <<"commit">>
    /\ pc[r] = "txn" => r \in open[TargetPartition(r)] /\ obs[r].ends = <<>>

\* C1 witness: a modify that applied its items, failed at namespace_update
\* and returned after one abort.
C1_Witness ==
  \E r \in Reqs :
    /\ Returned(r) /\ reqs[r].op = "modify" /\ reqs[r].mods # <<>>
    /\ obs[r].begun = "ok" /\ obs[r].fault = "update"
    /\ obs[r].ends = <<"abort">>

\* C2: at most one transaction is open on a partition; a request whose
\* namespace_begin meets busy returns at once, queued or answered, without a
\* transaction and without a write; a partition's store changes only in the
\* last step of the request that holds its transaction.
C2_SingleWriter ==
  [][ /\ \A p \in Partitions : Cardinality(open'[p]) <= 1
      /\ \A r \in Reqs :
           (pc[r] = "new" /\ pc'[r] # "new" /\ obs'[r].begun = "busy") =>
             /\ store' = store
             /\ pc'[r] \in {"queued", "done"}
             /\ obs'[r].nwrite = 0
             /\ \A p \in Partitions : r \notin open'[p]
      /\ \A p \in Partitions :
           store'[p] # store[p] =>
             \E r \in open[p] : pc[r] = "txn" /\ pc'[r] = "done"
                                /\ open[p] = {r} ]_vars

\* C2 witness: a request met busy on a partition whose transaction another
\* request holds.
C2_Witness ==
  \E p \in Partitions, r1, r2 \in Reqs :
    /\ r1 # r2 /\ open[p] = {r1} /\ pc[r1] = "txn"
    /\ obs[r2].begun = "busy" /\ TargetPartition(r2) = p
    /\ pc[r2] \in {"queued", "done"}

QueuedOn(p) == {x \in Reqs : pc[x] = "queued" /\ TargetPartition(x) = p}

\* C5: a queue changes only by a request joining at its tail, by a cancelled
\* request leaving it, or by a transaction's termination; a termination on a
\* partition takes exactly the head of its queue, the request queued the
\* longest, and hands it back to the dispatcher.
C5_Fifo ==
  [][ \A p \in Partitions :
        /\ (open[p] # {} /\ open'[p] = {} /\ queue[p] # <<>>) =>
             /\ queue'[p] = Tail(queue[p])
             /\ pc'[Head(queue[p])] = "new"
             /\ \A x \in QueuedOn(p) :
                  /\ obs[Head(queue[p])].ticket <= obs[x].ticket
                  /\ x # Head(queue[p]) => pc'[x] = "queued"
        /\ queue'[p] # queue[p] =>
             \/ \E r \in Reqs : /\ queue'[p] = Append(queue[p], r)
                                /\ pc[r] = "new" /\ pc'[r] = "queued"
             \/ \E r \in Reqs : /\ pc[r] = "queued" /\ pc'[r] = "gone"
                                /\ queue'[p] = SelectSeq(queue[p], LAMBDA x : x # r)
             \/ open[p] # {} /\ open'[p] = {}
        /\ \A r \in Reqs :
             (pc[r] = "queued" /\ pc'[r] = "new" /\ TargetPartition(r) = p) =>
               /\ open[p] # {} /\ open'[p] = {}
               /\ r = Head(queue[p]) ]_vars

\* C5 witness: two requests were queued on a partition and the one queued
\* first has been handed back while the other still waits.
C5_Witness ==
  \E p \in Partitions, r1, r2 \in Reqs :
    /\ r1 # r2 /\ TargetPartition(r1) = p /\ TargetPartition(r2) = p
    /\ pc[r1] = "new" /\ obs[r1].ticket > 0
    /\ pc[r2] = "queued" /\ obs[r2].ticket > obs[r1].ticket

\* The normalized DN of the request in slot r.
TargetDN(r) == normalize_dn(reqs[r].dn)

\* The store holds a descendant of dn.
HasDescendant(w, dn) == \E k \in DOMAIN w : IsDescendant(k, dn)

\* The step in which the body of the handler of op runs for request r.
BodyStep(r, op) == pc[r] = "txn" /\ pc'[r] = "done" /\ reqs[r].op = op

\* C6, as claimed: a delete of a key that has a descendant in the store,
\* whether the key itself is stored or not, is answered notAllowedOnNonleaf
\* and leaves the store unchanged (when no store call fails of its own).
C6_NonLeafAlways ==
  [][ \A r \in Reqs :
        ( /\ BodyStep(r, "delete") /\ obs'[r].fault = NoFault
          /\ HasDescendant(store[TargetPartition(r)], TargetDN(r)) ) =>
          /\ sent'[r] = <<LDAP_NOT_ALLOWED_ON_NONLEAF>>
          /\ store' = store ]_vars

\* C6, amended: a delete of a key that has a descendant in the store leaves
\* the store unchanged and is never answered success; when the key is stored
\* and no store call fails it is answered notAllowedOnNonleaf, also when the
\* descendant is not the key that follows it; when the key is not stored it
\* is not answered notAllowedOnNonleaf.
C6_NonLeaf ==
  [][ \A r \in Reqs :
        ( /\ BodyStep(r, "delete")
          /\ HasDescendant(store[TargetPartition(r)], TargetDN(r)) ) =>
          /\ store' = store
          /\ sent'[r] # <<LDAP_SUCCESS>>
          /\ obs'[r].ends = <<"abort">>
          /\ ( /\ obs'[r].fault = NoFault
               /\ TargetDN(r) \in DOMAIN store[TargetPartition(r)] ) =>
               sent'[r] = <<LDAP_NOT_ALLOWED_ON_NONLEAF>>
          /\ TargetDN(r) \notin DOMAIN store[TargetPartition(r)] =>
               sent'[r] # <<LDAP_NOT_ALLOWED_ON_NONLEAF>> ]_vars

\* C6 witness: a delete was answered notAllowedOnNonleaf for a stored key
\* one of whose descendants is not the key that follows it.
C6_Witness ==
  \E r \in Reqs :
    /\ Returned(r) /\ reqs[r].op = "delete"
    /\ sent[r] = <<LDAP_NOT_ALLOWED_ON_NONLEAF>>
    /\ TargetDN(r) \in DOMAIN store[TargetPartition(r)]
    /\ \E k \in DOMAIN store[TargetPartition(r)] :
         /\ IsDescendant(k, TargetDN(r))
         /\ k # NextKey(store[TargetPartition(r)], TargetDN(r))

\* The add request lists an attribute the schema marks immutable.
IsImmutableAttr(e) == e.wellformed /\ lookup_attribute(e.name).immutable
HasImmutable(attrs) == \E i \in 1..Len(attrs) : IsImmutableAttr(attrs[i])

\* The codes an add that lists an immutable attribute may be answered with:
\* that of the first check it fails, in the order DN, partition, access,
\* attributes in list order.
ImmutableAddCodes(req) ==
  LET dn == normalize_dn(req.dn)
      first == CHOOSE i \in 1..Len(req.attrs) :
                 /\ IsImmutableAttr(req.attrs[i])
                 /\ \A j \in 1..(i - 1) : ~IsImmutableAttr(req.attrs[j])
      bad == {j \in 1..(first - 1) :
                \/ ~req.attrs[j].wellformed
                \/ ~lookup_attribute(req.attrs[j].name).known}
      worst == CHOOSE j \in bad : \A k \in bad : j <= k
  IN  IF dn = <<>> THEN {LDAP_INVALID_DN_SYNTAX}
      ELSE IF namespace_for_base(dn) = NoPartition
      THEN {LDAP_NAMING_VIOLATION, LDAP_REFERRAL}
      ELSE IF ~req.authorized THEN {LDAP_INSUFFICIENT_ACCESS}
      ELSE IF bad = {} THEN {LDAP_CONSTRAINT_VIOLATION}
      ELSE IF ~req.attrs[worst].wellformed THEN {LDAP_PROTOCOL_ERROR}
      ELSE {LDAP_NO_SUCH_ATTRIBUTE}

\* C7, as claimed: an add that lists an immutable attribute is answered
\* constraintViolation, whatever else it lists and whatever its DN, its
\* partition and the requester's access.
C7_ImmutableAlways ==
  \A r \in Reqs :
    (Returned(r) /\ reqs[r].op = "add" /\ HasImmutable(reqs[r].attrs)) =>
      sent[r] = <<LDAP_CONSTRAINT_VIOLATION>>

\* C7, amended: an add that lists an immutable attribute returns before
\* namespace_begin, creates no entry and is answered with the code of the
\* first check it fails: constraintViolation when its DN is not empty and
\* lies in a partition, the requester has access and every attribute listed
\* before the immutable one is well-formed and known.
C7_Immutable ==
  [][ \A r \in Reqs :
        ( /\ pc[r] # "done" /\ pc'[r] = "done"
          /\ reqs[r].op = "add" /\ reqs[r].decodes
          /\ HasImmutable(reqs[r].attrs) ) =>
          /\ pc[r] = "new"
          /\ store' = store /\ open' = open
          /\ obs'[r].begun = "none" /\ obs'[r].nwrite = 0
          /\ Len(sent'[r]) = 1
          /\ sent'[r][1] \in ImmutableAddCodes(reqs[r]) ]_vars

\* C7 witness: an add that lists a known attribute and then an immutable one
\* was answered constraintViolation.
C7_Witness ==
  \E r \in Reqs :
    /\ Returned(r) /\ reqs[r].op = "add" /\ Len(reqs[r].attrs) = 2
    /\ IsImmutableAttr(reqs[r].attrs[2])
    /\ sent[r] = <<LDAP_CONSTRAINT_VIOLATION>>

\* C8: when validate_entry rejects the entry that ldap_modify edited in
\* memory, the transaction is aborted, namespace_update is not called and
\* the store is what it was before the request.
C8_AbortAtomic ==
  [][ \A r \in Reqs :
        (BodyStep(r, "modify") /\ obs'[r].valid \in ValidatorFailures) =>
          /\ store' = store
          /\ obs'[r].ends = <<"abort">>
          /\ obs'[r].nwrite = 0
          /\ sent'[r] = <<obs'[r].valid>> ]_vars

\* C8 witness: validate_entry rejected an entry that the request's two
\* modify-items had changed in memory.
C8_Witness ==
  \E r \in Reqs :
    /\ Returned(r) /\ reqs[r].op = "modify" /\ Len(reqs[r].mods) = 2
    /\ obs[r].valid \in ValidatorFailures
    /\ ApplyMods(store[TargetPartition(r)][TargetDN(r)], reqs[r].mods,
                 PartitionRelax[TargetPartition(r)], CONTINUE).entry
         # store[TargetPartition(r)][TargetDN(r)]

\* The store faults the claim names.
ClaimedFaults ==
  {"cursor_open", "cursor_get", "cursor_next", "del", "add", "update", "commit"}

\* C9: a request during which the store reported a fault (namespace_begin
\* failing otherwise than busy, a cursor call, namespace_del, namespace_add,
\* namespace_update or namespace_commit failing of its own) is answered
\* other, never success.
C9_FaultIsOther ==
  \A r \in Reqs :
    (Returned(r) /\ (obs[r].fault \in ClaimedFaults \/ obs[r].begun = "error")) =>
      sent[r] = <<LDAP_OTHER>>

\* C10, as claimed: every code sent is one of the twelve of the result
\* surface.
C10_SurfaceOnly ==
  \A r \in Reqs : \A i \in 1..Len(sent[r]) : sent[r][i] \in ResultSurface

\* C10, amended: every code sent is one of the twelve of the result surface,
\* or the code validate_entry returned for the entry of an add or a modify,
\* or a referral for a DN that lies in no partition.
C10_Surface ==
  \A r \in Reqs : \A i \in 1..Len(sent[r]) :
    \/ sent[r][i] \in ResultSurface
    \/ /\ reqs[r].op \in {"add", "modify"}
       /\ obs[r].valid \in ValidatorFailures
       /\ sent[r][i] = obs[r].valid
    \/ /\ sent[r][i] = LDAP_REFERRAL
       /\ TargetPartition(r) = NoPartition

\* C10 witness: an add was answered with the validator's own code, which is
\* not one of the twelve.
C10_Witness ==
  \E r \in Reqs :
    /\ Returned(r) /\ reqs[r].op = "add"
    /\ obs[r].valid = LDAP_OBJECT_CLASS_VIOLATION
    /\ sent[r] = <<LDAP_OBJECT_CLASS_VIOLATION>>

\* The values of the attribute named name in entry, none when it is absent.
ValueSet(entry, name) ==
  LET a == ldap_get_attribute(entry, name)
  IN  IF a = 0 THEN {} ELSE {entry[a].vals[j] : j \in 1..Len(entry[a].vals)}

\* The modify-item REPLACE attr = [v1, v2].
IsReplace12(m) ==
  m.decodes /\ m.op = LDAP_MOD_REPLACE /\ m.vals = <<"v1", "v2">>

\* C11: a committed modify whose items are REPLACE attr = [v1, v2] given
\* twice in sequence leaves attr with the values that giving it once would
\* leave, {v1, v2}, whether the entry had attr or not, and with whatever
\* values.
C11_ReplaceIdempotent ==
  [][ \A r \in Reqs :
        ( /\ BodyStep(r, "modify") /\ obs'[r].ends = <<"commit">>
          /\ Len(reqs[r].mods) = 2 /\ IsReplace12(reqs[r].mods[1])
          /\ reqs[r].mods[2] = reqs[r].mods[1] ) =>
          LET p == TargetPartition(r)
              R == reqs[r].mods[1]
              once == ApplyMod(store[p][TargetDN(r)], R, PartitionRelax[p],
                               CONTINUE).entry
          IN  /\ ValueSet(store'[p][TargetDN(r)], R.attr) = ValueSet(once, R.attr)
              /\ ValueSet(store'[p][TargetDN(r)], R.attr) = {"v1", "v2"} ]_vars

\* C11 witness: REPLACE cn = [v1, v2] was applied twice to an entry that had
\* no cn and the modify was committed.
C11_Witness ==
  \E r \in Reqs :
    /\ Returned(r) /\ reqs[r].op = "modify" /\ obs[r].ends = <<"commit">>
    /\ Len(reqs[r].mods) = 2 /\ IsReplace12(reqs[r].mods[1])
    /\ reqs[r].mods[2] = reqs[r].mods[1]
    /\ ValueSet(store[TargetPartition(r)][TargetDN(r)], "cn") = {"v1", "v2"}
    /\ ldap_get_attribute(store[TargetPartition(r)][TargetDN(r)], "cn") >
         ldap_get_attribute(Entry0, "cn")

\* The attribute types a request names, in order, each with whether it
\* decodes.
NamedTypes(req) ==
  IF req.op = "add"
  THEN [i \in 1..Len(req.attrs) |->
          [ok |-> req.attrs[i].wellformed, name |-> req.attrs[i].name]]
  ELSE [i \in 1..Len(req.mods) |->
          [ok |-> req.mods[i].decodes, name |-> req.mods[i].attr]]

\* The first attribute type the request names decodes and is unknown to the
\* schema.
FirstTypeUnknown(req) ==
  /\ NamedTypes(req) # <<>>
  /\ NamedTypes(req)[1].ok
  /\ ~lookup_attribute(NamedTypes(req)[1].name).known

\* The request in slot r got as far as looking up the attribute types it
\* names.
ReachedTypes(r) ==
  /\ reqs[r].decodes /\ TargetDN(r) # <<>> /\ reqs[r].authorized
  /\ reqs[r].op = "modify" =>
       /\ obs[r].begun = "ok" /\ obs[r].fault = NoFault
       /\ TargetDN(r) \in DOMAIN store[TargetPartition(r)]

\* C12: an add or a modify in a partition whose relax flag is set is never
\* answered noSuchAttributeType; in a partition without relax, a request
\* whose first attribute type is unknown to the schema is answered
\* noSuchAttributeType once it is looked up.
C12_RelaxTolerates ==
  \A r \in Reqs :
    ( /\ Returned(r) /\ reqs[r].op \in {"add", "modify"}
      /\ TargetPartition(r) # NoPartition ) =>
      /\ PartitionRelax[TargetPartition(r)] =>
           sent[r] # <<LDAP_NO_SUCH_ATTRIBUTE>>
      /\ ( /\ ~PartitionRelax[TargetPartition(r)]
           /\ FirstTypeUnknown(reqs[r]) /\ ReachedTypes(r) ) =>
           sent[r] = <<LDAP_NO_SUCH_ATTRIBUTE>>

\* The values a sequence holds.
Range(seq) == {seq[j] : j \in 1..Len(seq)}

\* The step in which a modify of one item, of kind op, is committed.
OneItemStep(r, op) ==
  /\ BodyStep(r, "modify") /\ obs'[r].ends = <<"commit">>
  /\ Len(reqs[r].mods) = 1 /\ reqs[r].mods[1].op = op

\* C13: a committed modify of one REPLACE item that carries values leaves
\* the attribute with exactly those values, whether it was present or not;
\* one that carries no values leaves the entry without the attribute.
C13_Replace ==
  [][ \A r \in Reqs :
        OneItemStep(r, LDAP_MOD_REPLACE) =>
          LET m == reqs[r].mods[1]
              after == store'[TargetPartition(r)][TargetDN(r)]
              a == ldap_get_attribute(after, m.attr)
          IN  IF m.vals # <<>> THEN a # 0 /\ after[a].vals = m.vals
              ELSE a = 0 ]_vars

\* C14: a committed modify of one DELETE item that carries values leaves the
\* attribute with its other values, and without the attribute when no value
\* is left; one that carries no values leaves the entry without the
\* attribute.
C14_Delete ==
  [][ \A r \in Reqs :
        OneItemStep(r, LDAP_MOD_DELETE) =>
          LET m == reqs[r].mods[1]
              before == store[TargetPartition(r)][TargetDN(r)]
              after == store'[TargetPartition(r)][TargetDN(r)]
          IN  IF m.vals # <<>>
              THEN ValueSet(after, m.attr) = ValueSet(before, m.attr) \ Range(m.vals)
              ELSE ldap_get_attribute(after, m.attr) = 0 ]_vars

\* The modify-item names an attribute the schema marks immutable.
IsImmutableMod(m) == m.decodes /\ lookup_attribute(m.attr).immutable
HasImmutableMod(mods) == \E i \in 1..Len(mods) : IsImmutableMod(mods[i])

\* Every item listed before the first immutable one decodes and names a type
\* the partition accepts, so that the loop reaches the immutable one.
ReachesImmutable(mods, relax) ==
  LET first == CHOOSE i \in 1..Len(mods) :
                 /\ IsImmutableMod(mods[i])
                 /\ \A j \in 1..(i - 1) : ~IsImmutableMod(mods[j])
  IN  \A j \in 1..(first - 1) :
        mods[j].decodes /\ (lookup_attribute(mods[j].attr).known \/ relax)

\* C15: a modify that lists an item naming an immutable attribute never
\* commits nor writes, and the store is unchanged by it; when the entry is
\* found and the loop reaches that item, the transaction is aborted and the
\* answer is constraintViolation.
C15_ImmutableModify ==
  [][ \A r \in Reqs :
        ( /\ pc[r] = "txn" /\ pc'[r] # "txn"
          /\ reqs[r].op = "modify" /\ HasImmutableMod(reqs[r].mods) ) =>
          /\ store' = store
          /\ obs'[r].ends # <<"commit">> /\ obs'[r].nwrite = 0
          /\ sent'[r] # <<LDAP_SUCCESS>>
          /\ ( /\ pc'[r] = "done" /\ obs'[r].fault = NoFault
               /\ TargetDN(r) \in DOMAIN store[TargetPartition(r)]
               /\ ReachesImmutable(reqs[r].mods,
                                   PartitionRelax[TargetPartition(r)]) ) =>
               /\ obs'[r].ends = <<"abort">>
               /\ sent'[r] = <<LDAP_CONSTRAINT_VIOLATION>> ]_vars

\* C15 witness: a modify whose first item changed the entry in memory and
\* whose second item names an immutable attribute was answered
\* constraintViolation after an abort.
C15_Witness ==
  \E r \in Reqs :
    /\ Returned(r) /\ reqs[r].op = "modify" /\ Len(reqs[r].mods) = 2
    /\ IsImmutableMod(reqs[r].mods[2]) /\ ~IsImmutableMod(reqs[r].mods[1])
    /\ obs[r].ends = <<"abort">> /\ sent[r] = <<LDAP_CONSTRAINT_VIOLATION>>
    /\ ApplyMod(store[TargetPartition(r)][TargetDN(r)], reqs[r].mods[1],
                PartitionRelax[TargetPartition(r)], CONTINUE).entry
         # store[TargetPartition(r)][TargetDN(r)]

\* C16: a delete or a modify whose key the partition's store does not hold
\* (no store call failing of its own) aborts its transaction, writes
\* nothing, leaves the store as it was and is answered noSuchObject; in
\* ldap_delete the cause is read after namespace_abort has run.
C16_NoSuchObject ==
  [][ \A r \in Reqs :
        ( /\ (BodyStep(r, "delete") \/ BodyStep(r, "modify"))
          /\ TargetDN(r) \notin DOMAIN store[TargetPartition(r)]
          /\ obs'[r].fault = NoFault ) =>
          /\ store' = store
          /\ obs'[r].ends = <<"abort">> /\ obs'[r].nwrite = 0
          /\ sent'[r] = <<LDAP_NO_SUCH_OBJECT>> ]_vars

\* C16 witness: a delete of a key the store does not hold was answered
\* noSuchObject after its abort.
C16_Witness ==
  \E r \in Reqs :
    /\ Returned(r) /\ reqs[r].op = "delete"
    /\ TargetPartition(r) # NoPartition
    /\ TargetDN(r) \notin DOMAIN store[TargetPartition(r)]
    /\ obs[r].begun = "ok" /\ obs[r].ends = <<"abort">>
    /\ sent[r] = <<LDAP_NO_SUCH_OBJECT>>

\* C17: an add whose normalized key the store already holds (no store call
\* failing of its own) aborts its transaction and leaves the store as it
\* was; it is answered alreadyExists when validate_entry accepted the entry,
\* and with validate_entry's code, namespace_add not being called, when it
\* did not.
C17_AlreadyExists ==
  [][ \A r \in Reqs :
        ( /\ BodyStep(r, "add")
          /\ TargetDN(r) \in DOMAIN store[TargetPartition(r)]
          /\ obs'[r].fault = NoFault ) =>
          /\ store' = store
          /\ obs'[r].ends = <<"abort">>
          /\ obs'[r].valid = LDAP_SUCCESS =>
               sent'[r] = <<LDAP_ALREADY_EXISTS>> /\ obs'[r].nwrite = 1
          /\ obs'[r].valid # LDAP_SUCCESS =>
               sent'[r] = <<obs'[r].valid>> /\ obs'[r].nwrite = 0 ]_vars

\* C17 witness: an add of X, whose normalized key x is held, was answered
\* alreadyExists and x holds the entry it held.
C17_Witness ==
  \E r \in Reqs :
    /\ Returned(r) /\ reqs[r].op = "add" /\ reqs[r].dn # TargetDN(r)
    /\ obs[r].valid = LDAP_SUCCESS /\ obs[r].ends = <<"abort">>
    /\ sent[r] = <<LDAP_ALREADY_EXISTS>>
    /\ store[TargetPartition(r)][TargetDN(r)] = Entry0

\* The request in slot r has left the queue for good: it was answered, or
\* its connection went away.
Settled(r) == pc[r] \in {"done", "gone"}

\* C18, as claimed: under fairness every request in a retry queue is in the
\* end answered, unless its connection goes away.
C18_QueuedAnswered ==
  \A r \in Reqs : (pc[r] = "queued") ~> Settled(r)

\* A request that was taken from the queue and run again met a failing
\* namespace_begin: it was answered other and ended no transaction.
RedrivenBeginFailed ==
  \E q \in Reqs : obs[q].runs >= 2 /\ obs[q].begun = "error"

\* C18, amended: under fairness every open transaction is terminated, and
\* every request in a retry queue is in the end answered, unless its
\* connection goes away or a request taken from the queue meets a failing
\* namespace_begin.
C18_Drained ==
  /\ \A p \in Partitions : (open[p] # {}) ~> (open[p] = {})
  /\ \A r \in Reqs :
       (pc[r] = "queued") ~> (Settled(r) \/ RedrivenBeginFailed)

\* C18 witness: two requests that waited in a queue were each taken from it,
\* run again and answered with the result of their own transaction.
C18_Witness ==
  \E r1, r2 \in Reqs :
    /\ r1 # r2 /\ Returned(r1) /\ Returned(r2)
    /\ obs[r1].runs >= 2 /\ obs[r2].runs >= 2
    /\ obs[r1].begun = "ok" /\ obs[r2].begun = "ok"
    /\ Len(obs[r1].ends) = 1 /\ Len(obs[r2].ends) = 1

\* C19: no run of ldap_modify enters ldap_merge_values, ldap_del_values or
\* ldap_set_values with the NULL that ldap_get_attribute returns for an
\* attribute the entry does not hold.
C19_HelpersGetAttribute ==
  \A r \in Reqs : reqs[r].op = "modify" => ~obs[r].nullarg

\* C20: when ldap_delete has returned, the cursor it opened on its
\* transaction, if it opened one, is closed.
C20_CursorClosed ==
  \A r \in Reqs :
    reqs[r].op = "delete" /\ pc[r] = "done" => obs[r].cursor # "open"
====
